---- MODULE Spec2Model ----
(***************************************************************************)
(* uh-ring serve mode: the poll loop of startMetricsPusher, one poll cycle *)
(* (fetchAndPushMetrics), the batch builder and sender pushMetrics with    *)
(* its per-metric high-water marks, and the /status and /health handlers;  *)
(* and the one-shot query of main (getMetricValue, displayMetrics).        *)
(***************************************************************************)
EXTENDS Integers, Sequences, FiniteSets, TLC

\* ------------------------------------------------------------------ bounds
MaxTs == 2       \* epoch-seconds upstream reports: -1..MaxTs
MaxLen == 2      \* readings in one envelope
MaxBatch == 2    \* envelopes in one date group
MaxCycles == 2   \* poll cycles started by one process run
MaxDates == 2    \* date groups in one upstream response

\* ------------------------------------------------------------------ inputs
Timestamps == -1..MaxTs
ReadingValues == {70, 72}
Totals == {500, 620}

\* the wire types upstream sends: two forwarded time series (one of them the
\* cumulative counter), one simple metric, and the two types outside the
\* registry
WireTypes == {"hr", "steps", "sleep_score", "sleep", "motion"}

\* the goroutines that run poll cycles: the program has one at a time
\* ("poller": main for the initial fetch, then the ticker goroutine);
\* "second" exists only under SpecConc
Poller == "poller"
AllProcs == {"poller", "second"}

\* ---------------------------------------------------------------- registry
TS(name) == [MetricType |-> "timeseries", PrometheusName |-> name]
Simple(name) == [MetricType |-> "simple", PrometheusName |-> name]

metricRegistry ==
  [hr |-> TS("ultrahuman_heart_rate_bpm"),
   hrv |-> TS("ultrahuman_hrv_ms"),
   temp |-> TS("ultrahuman_skin_temperature_celsius"),
   spo2 |-> TS("ultrahuman_spo2_percent"),
   steps |-> TS("ultrahuman_steps_total"),
   movement_index |-> Simple("ultrahuman_movement_index"),
   active_minutes |-> Simple("ultrahuman_active_minutes"),
   recovery_index |-> Simple("ultrahuman_recovery_index"),
   recovery |-> Simple("ultrahuman_recovery"),
   vo2_max |-> Simple("ultrahuman_vo2_max"),
   temperature_deviation |-> Simple("ultrahuman_temperature_deviation_celsius"),
   average_body_temperature |-> Simple("ultrahuman_avg_body_temperature_celsius"),
   sleep_score |-> Simple("ultrahuman_sleep_score"),
   total_sleep |-> Simple("ultrahuman_total_sleep_minutes"),
   sleep_efficiency |-> Simple("ultrahuman_sleep_efficiency_percent"),
   deep_sleep |-> Simple("ultrahuman_deep_sleep_minutes"),
   light_sleep |-> Simple("ultrahuman_light_sleep_minutes"),
   rem_sleep |-> Simple("ultrahuman_rem_sleep_minutes"),
   time_in_bed |-> Simple("ultrahuman_time_in_bed_minutes"),
   sleep_rhr |-> Simple("ultrahuman_sleep_rhr_bpm"),
   night_rhr |-> Simple("ultrahuman_sleep_rhr_bpm"),
   avg_sleep_hrv |-> Simple("ultrahuman_avg_sleep_hrv_ms"),
   hr_drop |-> Simple("ultrahuman_hr_drop_bpm"),
   restorative_sleep |-> Simple("ultrahuman_restorative_sleep"),
   morning_alertness |-> Simple("ultrahuman_morning_alertness"),
   full_sleep_cycles |-> Simple("ultrahuman_full_sleep_cycles"),
   tosses_and_turns |-> Simple("ultrahuman_tosses_and_turns"),
   movements |-> Simple("ultrahuman_sleep_movements"),
   glucose |-> TS("ultrahuman_glucose_mg_dl"),
   average_glucose |-> Simple("ultrahuman_avg_glucose_mg_dl"),
   glucose_variability |-> Simple("ultrahuman_glucose_variability_percent"),
   time_in_target |-> Simple("ultrahuman_time_in_target_percent"),
   hba1c |-> Simple("ultrahuman_hba1c_percent"),
   metabolic_score |-> Simple("ultrahuman_metabolic_score")]

\* a filter that forgets the shape: every registry entry with an output name
ForwardableByName(type) ==
  /\ type \in DOMAIN metricRegistry
  /\ metricRegistry[type].PrometheusName # ""

\* line 222-223: the envelope's type is in the registry, has an output name
\* and is a time series
Forwardable(type) ==
  /\ type \in DOMAIN metricRegistry
  /\ metricRegistry[type].PrometheusName # ""
  /\ metricRegistry[type].MetricType = "timeseries"

\* ------------------------------------------------------------------- types
\* TimeValue
TimeValue == [Value : ReadingValues, Timestamp : Timestamps]

\* sequences of readings of length 0..MaxLen, in collection order
ReadingLists == UNION {[1..n -> TimeValue] : n \in 0..MaxLen}

\* Metric: Type and the raw Object. Decodes says whether json.Unmarshal of
\* Object into TimeSeriesMetric succeeds; the other fields are what it yields.
\* pushMetrics reads only Values of a decoded non-steps envelope and only
\* DayStartTimestamp and Total of a steps one; a field it does not read is
\* held at its zero value, and a steps envelope carries no reading or one.
\* An envelope of a type that pushMetrics skips carries no reading or one.
\* json.Unmarshal that fails on one field has still filled the others: an
\* undecodable envelope carries the reading, or the day start and total, it
\* left in v.
Metric ==
  [Type : {"hr"}, Decodes : {TRUE}, DayStartTimestamp : {0}, Total : {0},
   Values : ReadingLists]
  \cup
  [Type : {"steps"}, Decodes : {TRUE}, DayStartTimestamp : Timestamps,
   Total : Totals, Values : {<<>>, <<[Value |-> 70, Timestamp |-> MaxTs]>>}]
  \cup
  [Type : {"hr"}, Decodes : {FALSE}, DayStartTimestamp : {0}, Total : {0},
   Values : {<<[Value |-> 70, Timestamp |-> MaxTs]>>}]
  \cup
  [Type : {"steps"}, Decodes : {FALSE}, DayStartTimestamp : {MaxTs},
   Total : {500}, Values : {<<>>}]
  \cup
  [Type : WireTypes \ {"hr", "steps"}, Decodes : {TRUE},
   DayStartTimestamp : {0}, Total : {0},
   Values : {<<>>, <<[Value |-> 70, Timestamp |-> MaxTs]>>}]

\* a date group of the response that the range loop of fetchAndPushMetrics
\* does not reach: one heart-rate envelope or one steps envelope
DateGroups ==
  {<<[Type |-> "hr", Decodes |-> TRUE, DayStartTimestamp |-> 0, Total |-> 0,
      Values |-> <<[Value |-> 72, Timestamp |-> MaxTs]>>]>>,
   <<[Type |-> "steps", Decodes |-> TRUE, DayStartTimestamp |-> MaxTs,
      Total |-> 620, Values |-> <<>>]>>}

\* the tracker as no loop body has seen it
NoSnapshot == [lastPushed |-> <<>>, global |-> 0]

NoMetric ==
  [Type |-> "", Decodes |-> FALSE, DayStartTimestamp |-> 0, Total |-> 0,
   Values |-> <<>>]

\* one prompb.TimeSeries: the __name__ label and its single sample
buildTimeSeries(metricName, value, timestampMs) ==
  [Name |-> metricName, Value |-> value, Timestamp |-> timestampMs]


\* ------------------------------------------------------------------- state
VARIABLES
  remoteWriteURL,         \* the --remote-write-url flag
  phase,                  \* startMetricsPusher: "start", "initial", "serving", "exited"
  ticks,                  \* ticks waiting in ticker.C (a channel of capacity 1)
  cycles,                 \* poll cycles started so far
  pc,                     \* per goroutine: "idle", "fetching", "lock", "loop", "write"
  remaining,              \* per goroutine: envelopes of metrics not yet ranged over
  m,                      \* per goroutine: the envelope the loop body last ran on
  base,                   \* per goroutine, history: len(timeseries) when that body began
  snapshot,               \* per goroutine, history: the tracker when that body began
  timeseries,             \* per goroutine: the batch built by pushMetrics
  err,                    \* per goroutine: what fetchAndPushMetrics last returned
  lastPushedTimestamp,    \* map wire type -> high-water mark (absent key reads 0)
  globalLatestTimestamp,
  lastPushedMu,           \* "" when unlocked, else the goroutine holding it
  statusPc,               \* /status handler: "idle" or "reading"
  statusReply,            \* last_data_timestamp of the last /status reply
  healthPc,               \* /health handler: "idle" or "writing"
  globalHeld,             \* values globalLatestTimestamp held during the running loop body
  written,                \* history: <<name, ms>> of samples a successful Write carried
  dropped,                \* history: <<name, ms>> of samples a failed Write carried
  seen,                   \* per goroutine, history: <<type, seconds>> decoded by the running pushMetrics
  others,                 \* per goroutine: the date groups of the last response that the range loop did not reach
  mainPc,                 \* main without the serve command: "none", "start", "fetched", "returned", "exit1"
  args,                   \* flag.Args(): << >> or <<command>>
  metrics,                \* main's metrics: the envelopes of the first date group
  stdout                  \* the lines main has printed

vars ==
  <<remoteWriteURL, phase, ticks, cycles, pc, remaining, m, base, snapshot,
    timeseries, err,
    lastPushedTimestamp, globalLatestTimestamp, lastPushedMu, statusPc,
    statusReply, healthPc, globalHeld, written, dropped, seen, others,
    mainPc, args, metrics, stdout>>

pollerVars == <<pc, remaining, m, base, snapshot, timeseries, err, seen>>
trackerVars == <<lastPushedTimestamp, globalLatestTimestamp, globalHeld>>
historyVars == <<written, dropped>>
statusVars == <<statusPc, statusReply, healthPc>>
queryVars == <<mainPc, args, metrics, stdout>>

\* ------------------------------------------------------------ the tracker
\* a map read that yields a sentinel below every timestamp when k is absent
LookupUnset(map, k) == IF k \in DOMAIN map THEN map[k] ELSE -2

\* lastPushedTimestamp[k] of a Go map: the zero value when k is absent
Lookup(map, k) == IF k \in DOMAIN map THEN map[k] ELSE 0

\* map[k] = v
Store(map, k, v) ==
  [x \in DOMAIN map \cup {k} |-> IF x = k THEN v ELSE map[x]]

\* an unconditional store of the newest timestamp
setGlobalTimestamp(global, ts) == ts

updateGlobalTimestamp(global, ts) == IF ts > global THEN ts ELSE global

\* no dedup rule: every reading is pushed
AlreadyPushedNever(reading, lastTs) == FALSE

\* a non-strict dedup rule: a reading at the mark is pushed again
AlreadyPushedBelow(reading, lastTs) == reading.Timestamp < lastTs

\* line 247: the reading is skipped
AlreadyPushed(reading, lastTs) == reading.Timestamp <= lastTs

\* a non-strict day-start check: the same day start is pushed again
StepsDayNotOlder(v, lastTs) == v.DayStartTimestamp >= lastTs

\* line 236: the steps envelope is pushed
StepsDayIsNew(v, lastTs) == v.DayStartTimestamp > lastTs

\* the timestamp forwarded in seconds, unconverted
TimestampSeconds(seconds) == seconds

\* lines 237, 250: seconds to milliseconds
TimestampMs(seconds) == seconds * 1000

\* a mark that follows the last reading pushed
LastReadingMark(mark, ts) == ts

\* line 252-254: the mark after a pushed reading
AdvanceMark(mark, ts) == IF ts > mark THEN ts ELSE mark

\* a loop over v.Values that compares each reading with the mark as the
\* readings before it left it
RECURSIVE ReadingLoopLiveMark(_, _, _, _)
ReadingLoopLiveMark(type, values, lastTs, st) ==
  IF values = <<>> THEN st
  ELSE LET reading == Head(values)
           name == metricRegistry[type].PrometheusName
           global == updateGlobalTimestamp(st.global, reading.Timestamp)
       IN IF AlreadyPushed(reading, Lookup(st.lastPushed, type))
          THEN ReadingLoopLiveMark(type, Tail(values), lastTs, st)
          ELSE ReadingLoopLiveMark(type, Tail(values), lastTs,
                 [timeseries |-> Append(st.timeseries,
                      buildTimeSeries(name, reading.Value,
                                      TimestampMs(reading.Timestamp))),
                  lastPushed |-> Store(st.lastPushed, type,
                      AdvanceMark(Lookup(st.lastPushed, type), reading.Timestamp)),
                  global |-> global,
                  held |-> st.held \cup {global}])

\* lines 246-256: the loop over v.Values; st carries the batch, the map, the
\* global timestamp and the values the global timestamp went through
RECURSIVE ReadingLoop(_, _, _, _)
ReadingLoop(type, values, lastTs, st) ==
  IF values = <<>> THEN st
  ELSE LET reading == Head(values)
           name == metricRegistry[type].PrometheusName
           global == updateGlobalTimestamp(st.global, reading.Timestamp)
       IN IF AlreadyPushed(reading, lastTs)
          THEN ReadingLoop(type, Tail(values), lastTs, st)
          ELSE ReadingLoop(type, Tail(values), lastTs,
                 [timeseries |-> Append(st.timeseries,
                      buildTimeSeries(name, reading.Value,
                                      TimestampMs(reading.Timestamp))),
                  lastPushed |-> Store(st.lastPushed, type,
                      AdvanceMark(Lookup(st.lastPushed, type), reading.Timestamp)),
                  global |-> global,
                  held |-> st.held \cup {global}])

\* a steps branch that forgets to store the day start
StepsBodyNoMark(v, lastTs, st) ==
  IF StepsDayIsNew(v, lastTs)
  THEN LET global == updateGlobalTimestamp(st.global, v.DayStartTimestamp)
       IN [timeseries |-> Append(st.timeseries,
               buildTimeSeries(metricRegistry["steps"].PrometheusName, v.Total,
                               TimestampMs(v.DayStartTimestamp))),
           lastPushed |-> st.lastPushed,
           global |-> global,
           held |-> st.held \cup {global}]
  ELSE st

\* lines 234-243: the steps envelope
StepsBody(v, lastTs, st) ==
  IF StepsDayIsNew(v, lastTs)
  THEN LET global == updateGlobalTimestamp(st.global, v.DayStartTimestamp)
       IN [timeseries |-> Append(st.timeseries,
               buildTimeSeries(metricRegistry["steps"].PrometheusName, v.Total,
                               TimestampMs(v.DayStartTimestamp))),
           lastPushed |-> Store(st.lastPushed, "steps", v.DayStartTimestamp),
           global |-> global,
           held |-> st.held \cup {global}]
  ELSE st

\* a loop body that ignores the error of json.Unmarshal
LoopBodyIgnoringErr(metric, st) ==
  IF ~Forwardable(metric.Type) THEN st
  ELSE LET lastTs == Lookup(st.lastPushed, metric.Type)
       IN IF metric.Type = "steps"
          THEN StepsBody(metric, lastTs, st)
          ELSE ReadingLoop(metric.Type, metric.Values, lastTs, st)

\* lines 221-257: one iteration of the loop over metrics
LoopBody(metric, st) ==
  IF ~Forwardable(metric.Type) THEN st
  ELSE IF ~metric.Decodes THEN st
  ELSE LET lastTs == Lookup(st.lastPushed, metric.Type)
       IN IF metric.Type = "steps"
          THEN StepsBody(metric, lastTs, st)
          ELSE ReadingLoop(metric.Type, metric.Values, lastTs, st)

\* the readings an envelope adds to the cycle's history
Decoded(metric) ==
  IF ~(Forwardable(metric.Type) /\ metric.Decodes) THEN {}
  ELSE IF metric.Type = "steps" THEN {<<"steps", metric.DayStartTimestamp>>}
  ELSE {<<metric.Type, metric.Values[i].Timestamp>> : i \in DOMAIN metric.Values}

SampleKeys(batch) == {<<batch[i].Name, batch[i].Timestamp>> : i \in DOMAIN batch}

\* -------------------------------------------------------------------- Init
Init ==
  /\ remoteWriteURL \in {"", "http://prometheus:9090/api/v1/write"}
  /\ phase = "start"
  /\ ticks = 0
  /\ cycles = 0
  /\ pc = [p \in AllProcs |-> "idle"]
  /\ remaining = [p \in AllProcs |-> 0]
  /\ m = [p \in AllProcs |-> NoMetric]
  /\ base = [p \in AllProcs |-> 0]
  /\ snapshot = [p \in AllProcs |-> NoSnapshot]
  /\ timeseries = [p \in AllProcs |-> <<>>]
  /\ err = [p \in AllProcs |-> "none"]
  /\ lastPushedTimestamp = [k \in {} |-> 0]
  /\ globalLatestTimestamp = 0
  /\ lastPushedMu = ""
  /\ statusPc = "idle"
  /\ statusReply = 0
  /\ healthPc = "idle"
  /\ globalHeld = {0}
  /\ written = {}
  /\ dropped = {}
  /\ seen = [p \in AllProcs |-> {}]
  /\ others = [p \in AllProcs |-> <<>>]
  /\ mainPc = "none"
  /\ args = <<"serve">>
  /\ metrics = <<>>
  /\ stdout = <<>>

\* ------------------------------------------------------ startMetricsPusher
\* lines 603-605: log.Fatal when the flag is empty
FatalNoURL ==
  /\ phase = "start"
  /\ remoteWriteURL = ""
  /\ phase' = "exited"
  /\ UNCHANGED <<queryVars, others, remoteWriteURL, ticks, cycles, pollerVars, trackerVars,
                 lastPushedMu, statusVars, historyVars>>

\* lines 607-611: the initial fetch starts on the main goroutine
InitialFetch ==
  /\ phase = "start"
  /\ remoteWriteURL # ""
  /\ phase' = "initial"
  /\ cycles' = cycles + 1
  /\ pc' = [pc EXCEPT ![Poller] = "fetching"]
  /\ UNCHANGED <<queryVars, others, remoteWriteURL, ticks, remaining, m, base, snapshot, timeseries, err, seen,
                 trackerVars, lastPushedMu, statusVars, historyVars>>

\* a startup that runs the initial fetch in the background: the ticker
\* goroutine and the server start while it is still running
ServeEarly ==
  /\ phase = "initial"
  /\ phase' = "serving"
  /\ UNCHANGED <<queryVars, others, remoteWriteURL, ticks, cycles, pollerVars, trackerVars,
                 lastPushedMu, statusVars, historyVars>>

\* lines 615-638: the ticker goroutine starts and ListenAndServe serves
Serve ==
  /\ phase = "initial"
  /\ pc[Poller] = "idle"
  /\ phase' = "serving"
  /\ UNCHANGED <<queryVars, others, remoteWriteURL, ticks, cycles, pollerVars, trackerVars,
                 lastPushedMu, statusVars, historyVars>>

\* line 638: ListenAndServe returns an error (the port is taken): log.Fatal
ListenFail ==
  /\ phase = "initial"
  /\ pc[Poller] = "idle"
  /\ phase' = "exited"
  /\ UNCHANGED <<queryVars, others, remoteWriteURL, ticks, cycles, pollerVars, trackerVars,
                 lastPushedMu, statusVars, historyVars>>

\* line 617: the ticker's period elapses; ticker.C holds one tick, a tick
\* that finds it full is dropped
TickerFire ==
  /\ phase = "serving"
  /\ ticks' = 1
  /\ UNCHANGED <<queryVars, others, remoteWriteURL, phase, cycles, pollerVars, trackerVars,
                 lastPushedMu, statusVars, historyVars>>

\* line 618-619: the loop receives a tick and starts a poll cycle
LoopReceive(p) ==
  /\ phase = "serving"
  /\ pc[p] = "idle"
  /\ ticks = 1
  /\ cycles < MaxCycles
  /\ ticks' = 0
  /\ cycles' = cycles + 1
  /\ pc' = [pc EXCEPT ![p] = "fetching"]
  /\ UNCHANGED <<queryVars, others, remoteWriteURL, phase, remaining, m, base, snapshot, timeseries, err, seen,
                 trackerVars, lastPushedMu, statusVars, historyVars>>

\* a caller that treats an error as fatal (log.Fatalf for log.Printf)
ReturnFatal(p, e) ==
  /\ pc' = [pc EXCEPT ![p] = "idle"]
  /\ err' = [err EXCEPT ![p] = e]
  /\ phase' = IF e = "nil" THEN phase ELSE "exited"

\* a range loop without its break: after a push that returned nil, with date
\* groups left, fetchAndPushMetrics goes on to push the next one
ReturnContinues(p, e) ==
  IF e = "nil" /\ others[p] # <<>>
  THEN /\ pc' = [pc EXCEPT ![p] = "lock"]
       /\ err' = err
       /\ phase' = phase
  ELSE /\ pc' = [pc EXCEPT ![p] = "idle"]
       /\ err' = [err EXCEPT ![p] = e]
       /\ phase' = phase

\* lines 611-613, 619-621: fetchAndPushMetrics returned e; the caller logs
\* an error and goes on
ReturnToCaller(p, e) ==
  /\ pc' = [pc EXCEPT ![p] = "idle"]
  /\ err' = [err EXCEPT ![p] = e]
  /\ phase' = phase

\* ----------------------------------------------------- fetchAndPushMetrics
\* a failed fetch that forgets the marks
FetchFailResets(p) ==
  /\ pc[p] = "fetching"
  /\ ReturnToCaller(p, "fetch_error")
  /\ lastPushedTimestamp' = [k \in {} |-> 0]
  /\ globalLatestTimestamp' = 0
  /\ UNCHANGED <<queryVars, others, remoteWriteURL, ticks, cycles, remaining, m, base, snapshot,
                 timeseries, seen, globalHeld, lastPushedMu, statusVars,
                 historyVars>>

\* lines 581-584: makeRequest fails (network, body, JSON)
FetchFail(p) ==
  /\ pc[p] = "fetching"
  /\ ReturnToCaller(p, "fetch_error")
  /\ UNCHANGED <<queryVars, others, remoteWriteURL, ticks, cycles, remaining, m, base, snapshot, timeseries, seen,
                 trackerVars, lastPushedMu, statusVars, historyVars>>

\* lines 586-588: upstream reports an error
ApiError(p) ==
  /\ pc[p] = "fetching"
  /\ ReturnToCaller(p, "api_error")
  /\ UNCHANGED <<queryVars, others, remoteWriteURL, ticks, cycles, remaining, m, base, snapshot, timeseries, seen,
                 trackerVars, lastPushedMu, statusVars, historyVars>>

\* lines 590-597: the response holds no date group
FetchNoDates(p) ==
  /\ pc[p] = "fetching"
  /\ ReturnToCaller(p, "nil")
  /\ UNCHANGED <<queryVars, others, remoteWriteURL, ticks, cycles, remaining, m, base, snapshot, timeseries, seen,
                 trackerVars, lastPushedMu, statusVars, historyVars>>

\* lines 590-591, 211-216: pushMetrics is called on one date group of n
\* envelopes; rwClient is never nil here. The other date groups of the
\* response, if any, are left off the record
FetchOk(p) ==
  /\ pc[p] = "fetching"
  /\ \E n \in 0..MaxBatch : remaining' = [remaining EXCEPT ![p] = n]
  /\ timeseries' = [timeseries EXCEPT ![p] = <<>>]
  /\ pc' = [pc EXCEPT ![p] = "lock"]
  /\ UNCHANGED <<queryVars, others, remoteWriteURL, phase, ticks, cycles, m, base, snapshot, err, seen,
                 trackerVars, lastPushedMu, statusVars, historyVars>>

\* lines 590-595, 211-216: the response maps 1..MaxDates dates to envelope
\* sequences; the range loop reaches one of them (Go's map order decides
\* which), calls pushMetrics on its n envelopes and breaks, so the others are
\* never ranged over
FetchOkDates(p) ==
  /\ pc[p] = "fetching"
  /\ \E n \in 0..MaxBatch : remaining' = [remaining EXCEPT ![p] = n]
  /\ \E d \in 1..MaxDates : \E rest \in [1..(d - 1) -> DateGroups] :
       others' = [others EXCEPT ![p] = rest]
  /\ timeseries' = [timeseries EXCEPT ![p] = <<>>]
  /\ pc' = [pc EXCEPT ![p] = "lock"]
  /\ UNCHANGED <<queryVars, remoteWriteURL, phase, ticks, cycles, m, base, snapshot, err, seen,
                 trackerVars, lastPushedMu, statusVars, historyVars>>

\* ------------------------------------------------------------- pushMetrics
\* a lock that does not exclude: the pass starts whoever holds the mutex
LockNoWait(p) ==
  /\ pc[p] = "lock"
  /\ lastPushedMu' = p
  /\ pc' = [pc EXCEPT ![p] = "loop"]
  /\ globalHeld' = {globalLatestTimestamp}
  /\ UNCHANGED <<queryVars, others, remoteWriteURL, phase, ticks, cycles, remaining, m, base, snapshot,
                 timeseries, err, seen, lastPushedTimestamp,
                 globalLatestTimestamp, statusVars, historyVars>>

\* line 218: lastPushedMu.Lock()
Lock(p) ==
  /\ pc[p] = "lock"
  /\ lastPushedMu = ""
  /\ lastPushedMu' = p
  /\ pc' = [pc EXCEPT ![p] = "loop"]
  /\ globalHeld' = {globalLatestTimestamp}
  /\ UNCHANGED <<queryVars, others, remoteWriteURL, phase, ticks, cycles, remaining, m, base, snapshot,
                 timeseries, err, seen, lastPushedTimestamp,
                 globalLatestTimestamp, statusVars, historyVars>>

\* lines 221-257: the loop body runs on the next envelope
LoopStep(p) ==
  /\ pc[p] = "loop"
  /\ remaining[p] > 0
  /\ \E metric \in Metric :
       LET st == LoopBody(metric,
                   [timeseries |-> timeseries[p],
                    lastPushed |-> lastPushedTimestamp,
                    global |-> globalLatestTimestamp,
                    held |-> {globalLatestTimestamp}])
       IN /\ m' = [m EXCEPT ![p] = metric]
          /\ base' = [base EXCEPT ![p] = Len(timeseries[p])]
          /\ snapshot' = [snapshot EXCEPT ![p] =
                          [lastPushed |-> lastPushedTimestamp,
                           global |-> globalLatestTimestamp]]
          /\ timeseries' = [timeseries EXCEPT ![p] = st.timeseries]
          /\ lastPushedTimestamp' = st.lastPushed
          /\ globalLatestTimestamp' = st.global
          /\ globalHeld' = st.held
          /\ seen' = [seen EXCEPT ![p] = @ \cup Decoded(metric)]
  /\ remaining' = [remaining EXCEPT ![p] = @ - 1]
  /\ UNCHANGED <<queryVars, others, remoteWriteURL, phase, ticks, cycles, pc, err, lastPushedMu,
                 statusVars, historyVars>>

\* lines 259-261 and the deferred Unlock: nothing to send
ReturnEmpty(p) ==
  /\ pc[p] = "loop"
  /\ remaining[p] = 0
  /\ Len(timeseries[p]) = 0
  /\ lastPushedMu' = ""
  /\ m' = [m EXCEPT ![p] = NoMetric]
  /\ base' = [base EXCEPT ![p] = 0]
  /\ snapshot' = [snapshot EXCEPT ![p] = NoSnapshot]
  /\ seen' = [seen EXCEPT ![p] = {}]
  /\ globalHeld' = {globalLatestTimestamp}
  /\ ReturnToCaller(p, "nil")
  /\ UNCHANGED <<queryVars, others, remoteWriteURL, ticks, cycles, remaining, timeseries,
                 lastPushedTimestamp, globalLatestTimestamp, statusVars,
                 historyVars>>

\* a pass that sends whatever it built, the empty batch too
CallWriteAlways(p) ==
  /\ pc[p] = "loop"
  /\ remaining[p] = 0
  /\ m' = [m EXCEPT ![p] = NoMetric]
  /\ base' = [base EXCEPT ![p] = 0]
  /\ snapshot' = [snapshot EXCEPT ![p] = NoSnapshot]
  /\ pc' = [pc EXCEPT ![p] = "write"]
  /\ globalHeld' = {globalLatestTimestamp}
  /\ UNCHANGED <<queryVars, others, remoteWriteURL, phase, ticks, cycles, remaining, timeseries,
                 err, seen, lastPushedTimestamp, globalLatestTimestamp,
                 lastPushedMu, statusVars, historyVars>>

\* lines 263-264: rwClient.Write is called, the lock still held
CallWrite(p) ==
  /\ pc[p] = "loop"
  /\ remaining[p] = 0
  /\ Len(timeseries[p]) > 0
  /\ m' = [m EXCEPT ![p] = NoMetric]
  /\ base' = [base EXCEPT ![p] = 0]
  /\ snapshot' = [snapshot EXCEPT ![p] = NoSnapshot]
  /\ pc' = [pc EXCEPT ![p] = "write"]
  /\ globalHeld' = {globalLatestTimestamp}
  /\ UNCHANGED <<queryVars, others, remoteWriteURL, phase, ticks, cycles, remaining, timeseries,
                 err, seen, lastPushedTimestamp, globalLatestTimestamp,
                 lastPushedMu, statusVars, historyVars>>

\* lines 91-120, 264, 591-597: Write succeeds, pushMetrics unlocks and returns
WriteOk(p) ==
  /\ pc[p] = "write"
  /\ written' = written \cup SampleKeys(timeseries[p])
  /\ timeseries' = [timeseries EXCEPT ![p] = <<>>]
  /\ lastPushedMu' = ""
  /\ seen' = [seen EXCEPT ![p] = {}]
  /\ ReturnToCaller(p, "nil")
  /\ UNCHANGED <<queryVars, others, remoteWriteURL, ticks, cycles, remaining, m, base, snapshot,
                 trackerVars, statusVars, dropped>>

\* a failed Write that resets the tracker
TrackerRolledBack ==
  /\ lastPushedTimestamp' = [k \in {} |-> 0]
  /\ globalLatestTimestamp' = 0
  /\ globalHeld' = {0}

\* the tracker after a failed Write: untouched
TrackerAfterFailure ==
  UNCHANGED trackerVars

\* lines 91-120, 264, 591-593: Write fails (marshal, network, non-2xx);
\* pushMetrics unlocks and returns the error
WriteFail(p) ==
  /\ pc[p] = "write"
  /\ dropped' = dropped \cup SampleKeys(timeseries[p])
  /\ timeseries' = [timeseries EXCEPT ![p] = <<>>]
  /\ lastPushedMu' = ""
  /\ seen' = [seen EXCEPT ![p] = {}]
  /\ TrackerAfterFailure
  /\ ReturnToCaller(p, "push_error")
  /\ UNCHANGED <<queryVars, others, remoteWriteURL, ticks, cycles, remaining, m, base, snapshot,
                 statusVars, written>>

\* ----------------------------------------------------------- HTTP handlers
\* line 630: a /status request arrives
StatusRequest ==
  /\ phase = "serving"
  /\ statusPc = "idle"
  /\ statusPc' = "reading"
  /\ UNCHANGED <<queryVars, others, remoteWriteURL, phase, ticks, cycles, pollerVars, trackerVars,
                 lastPushedMu, statusReply, healthPc, historyVars>>

\* a handler that takes lastPushedMu for its read: it waits for the poll cycle
StatusReplyLocked ==
  /\ statusPc = "reading"
  /\ lastPushedMu = ""
  /\ statusReply' = globalLatestTimestamp
  /\ statusPc' = "idle"
  /\ UNCHANGED <<queryVars, others, remoteWriteURL, phase, ticks, cycles, pollerVars, trackerVars,
                 lastPushedMu, healthPc, historyVars>>

\* line 632: the handler reads globalLatestTimestamp without the lock; while
\* a loop body is writing it the read races and yields any value it held
StatusReply ==
  /\ statusPc = "reading"
  /\ statusReply' \in
       IF \E p \in AllProcs : pc[p] = "loop"
       THEN globalHeld ELSE {globalLatestTimestamp}
  /\ statusPc' = "idle"
  /\ UNCHANGED <<queryVars, others, remoteWriteURL, phase, ticks, cycles, pollerVars, trackerVars,
                 lastPushedMu, healthPc, historyVars>>

\* line 626: a /health request arrives
HealthRequest ==
  /\ phase = "serving"
  /\ healthPc = "idle"
  /\ healthPc' = "writing"
  /\ UNCHANGED <<queryVars, others, remoteWriteURL, phase, ticks, cycles, pollerVars, trackerVars,
                 lastPushedMu, statusPc, statusReply, historyVars>>

\* lines 627-628: the handler writes 200 and "ok"; it reads no shared state
HealthReply ==
  /\ healthPc = "writing"
  /\ healthPc' = "idle"
  /\ UNCHANGED <<queryVars, others, remoteWriteURL, phase, ticks, cycles, pollerVars, trackerVars,
                 lastPushedMu, statusPc, statusReply, historyVars>>

\* ------------------------------------------------------ the one-shot query
\* main without the serve command (lines 673-703) prints the dashboard or one
\* metric. It is modelled for envelopes of simple metrics and of a type that
\* is neither in the registry nor hard-coded; the branches for sleep, motion,
\* steps and the time series read other payload shapes and are not drawn.

\* *float64: << >> is nil, <<x>> points to x. Values are whole numbers.
ScalarValues == {<< >>, <<0>>, <<85>>}

\* the simple metrics upstream sends to a query, and the foreign type
SimpleTypes == {"sleep_score", "total_sleep", "vo2_max"}
ForeignType == "weight"

\* the display fields of the registry entries of SimpleTypes
displayConfig ==
  [sleep_score |-> [DisplayName |-> "SLEEP SCORE", Unit |-> "", IsDuration |-> FALSE],
   total_sleep |-> [DisplayName |-> "TOTAL SLEEP", Unit |-> "", IsDuration |-> TRUE],
   vo2_max |-> [DisplayName |-> "VO2 MAX", Unit |-> "ml/kg/min", IsDuration |-> FALSE]]

\* Metric as the query decodes it into SimpleMetric: Decodes says whether
\* json.Unmarshal succeeds, Value is what it left in v.Value
SimpleEnvelope ==
  [Type : SimpleTypes, Decodes : {TRUE}, Value : ScalarValues]
  \cup
  [Type : SimpleTypes, Decodes : {FALSE}, Value : {<< >>, <<85>>}]
  \cup
  [Type : {ForeignType}, Decodes : {TRUE}, Value : {<<85>>}]

\* the envelopes of one date group
SimpleEnvelopeLists == UNION {[1..n -> SimpleEnvelope] : n \in 0..MaxBatch}

\* the commands of a query: none, a simple metric sent or not, the foreign type
Commands == {<< >>} \cup {<<c>> : c \in SimpleTypes \cup {"hba1c", ForeignType}}

\* fmt.Sprintf("%.0f", x) and ("%.1f", x) of a whole number x >= 0
Fmt0(x) == ToString(x)
Fmt1(x) == ToString(x) \o ".0"

\* lines 302-309
formatDuration(minutes) ==
  LET h == minutes \div 60
      mins == minutes % 60
  IN IF h > 0 THEN ToString(h) \o "h " \o ToString(mins) \o "m"
     ELSE ToString(mins) \o "m"

\* lines 367-382: the value of an envelope of a simple metric
SimpleValue(e, metricType) ==
  IF ~e.Decodes THEN "null"
  ELSE IF e.Value = << >> THEN "null"
  ELSE IF displayConfig[metricType].IsDuration THEN formatDuration(e.Value[1])
  ELSE IF \/ displayConfig[metricType].Unit = "°C"
          \/ metricType \in {"hba1c", "glucose_variability", "vo2_max"}
  THEN Fmt1(e.Value[1])
  ELSE Fmt0(e.Value[1])

\* lines 315-386: the first envelope of the type decides
RECURSIVE getMetricValue(_, _)
getMetricValue(ms, metricType) ==
  IF ms = << >> THEN "not found"
  ELSE IF Head(ms).Type # metricType THEN getMetricValue(Tail(ms), metricType)
  ELSE IF metricType \notin DOMAIN metricRegistry THEN "not found"
  ELSE CASE metricRegistry[metricType].MetricType = "simple" ->
              SimpleValue(Head(ms), metricType)

\* lines 404-515: the lines displayMetric prints for one envelope
displayMetric(e) ==
  IF e.Type \notin DOMAIN metricRegistry THEN << >>
  ELSE CASE metricRegistry[e.Type].MetricType = "simple" ->
    IF ~e.Decodes \/ e.Value = << >> THEN << >>
    ELSE LET config == displayConfig[e.Type]
             x == e.Value[1]
         IN <<"  " \o config.DisplayName,
              IF config.IsDuration THEN "      Duration: " \o formatDuration(x)
              ELSE IF config.Unit = "°C"
                THEN "      Value: " \o Fmt1(x) \o config.Unit
              ELSE IF config.Unit = "%"
                THEN "      Value: " \o Fmt0(x) \o "%"
              ELSE IF \/ config.Unit = "ml/kg/min"
                      \/ e.Type \in {"hba1c", "glucose_variability"}
                THEN "      Value: " \o Fmt1(x) \o " " \o config.Unit
              ELSE IF config.Unit # ""
                THEN "      Value: " \o Fmt0(x) \o " " \o config.Unit
              ELSE "      Score: " \o Fmt0(x)>>

\* lines 397-399: the envelopes of a date group, in order
RECURSIVE displayEach(_)
displayEach(ms) ==
  IF ms = << >> THEN << >> ELSE displayMetric(Head(ms)) \o displayEach(Tail(ms))

\* lines 388-402: the dashboard of a response with one date group
displayMetrics(ms) ==
  <<"ULTRAHUMAN METRICS | Timezone: UTC", "  Date: today">>
    \o displayEach(ms)

\* a process started for a query, before its request
InitQuery ==
  /\ remoteWriteURL = ""
  /\ phase = "start"
  /\ ticks = 0
  /\ cycles = 0
  /\ pc = [p \in AllProcs |-> "idle"]
  /\ remaining = [p \in AllProcs |-> 0]
  /\ m = [p \in AllProcs |-> NoMetric]
  /\ base = [p \in AllProcs |-> 0]
  /\ snapshot = [p \in AllProcs |-> NoSnapshot]
  /\ timeseries = [p \in AllProcs |-> <<>>]
  /\ err = [p \in AllProcs |-> "none"]
  /\ lastPushedTimestamp = [k \in {} |-> 0]
  /\ globalLatestTimestamp = 0
  /\ lastPushedMu = ""
  /\ statusPc = "idle"
  /\ statusReply = 0
  /\ healthPc = "idle"
  /\ globalHeld = {0}
  /\ written = {}
  /\ dropped = {}
  /\ seen = [p \in AllProcs |-> {}]
  /\ others = [p \in AllProcs |-> <<>>]
  /\ mainPc = "start"
  /\ args \in Commands
  /\ metrics = << >>
  /\ stdout = << >>

serverVars ==
  <<remoteWriteURL, phase, ticks, cycles, pollerVars, others, trackerVars,
    lastPushedMu, statusVars, historyVars>>

\* lines 679-683: makeRequest fails
QueryFetchFail ==
  /\ mainPc = "start"
  /\ stdout' = Append(stdout, "Error: fetch")
  /\ mainPc' = "exit1"
  /\ UNCHANGED <<serverVars, args, metrics>>

\* lines 685-688: upstream reports an error
QueryApiError ==
  /\ mainPc = "start"
  /\ stdout' = Append(stdout, "API Error: upstream")
  /\ mainPc' = "exit1"
  /\ UNCHANGED <<serverVars, args, metrics>>

\* lines 679-695: the response arrives; metrics is its first date group
QueryFetchOk ==
  /\ mainPc = "start"
  /\ metrics' \in SimpleEnvelopeLists
  /\ mainPc' = "fetched"
  /\ UNCHANGED <<serverVars, args, stdout>>

\* lines 697-700: no command, the dashboard
ShowAll ==
  /\ mainPc = "fetched"
  /\ Len(args) < 1
  /\ stdout' = stdout \o displayMetrics(metrics)
  /\ mainPc' = "returned"
  /\ UNCHANGED <<serverVars, args, metrics>>

\* lines 702-703: one metric
ShowOne ==
  /\ mainPc = "fetched"
  /\ Len(args) >= 1
  /\ stdout' = Append(stdout, getMetricValue(metrics, args[1]))
  /\ mainPc' = "returned"
  /\ UNCHANGED <<serverVars, args, metrics>>

NextQuery ==
  \/ QueryFetchFail
  \/ QueryApiError
  \/ QueryFetchOk
  \/ ShowAll
  \/ ShowOne

SpecQuery == InitQuery /\ [][NextQuery]_vars

\* ---------------------------------------------------------- specifications
Cycle(p) ==
  \/ FetchFail(p)
  \/ ApiError(p)
  \/ FetchNoDates(p)
  \/ FetchOk(p)
  \/ Lock(p)
  \/ LoopStep(p)
  \/ ReturnEmpty(p)
  \/ CallWrite(p)
  \/ WriteOk(p)
  \/ WriteFail(p)

Startup ==
  \/ FatalNoURL
  \/ InitialFetch
  \/ Serve
  \/ ListenFail
  \/ TickerFire

\* the program's poll loop: one goroutine runs the cycles
Next ==
  \/ Startup
  \/ LoopReceive(Poller)
  \/ Cycle(Poller)

Spec == Init /\ [][Next]_vars

\* the server with its /status handler running beside the poll loop
NextStatus ==
  \/ Next
  \/ StatusRequest
  \/ StatusReply

SpecStatus == Init /\ [][NextStatus]_vars

\* the server with both handlers of lines 626-633
NextServe ==
  \/ NextStatus
  \/ HealthRequest
  \/ HealthReply

SpecServe == Init /\ [][NextServe]_vars

\* the poll loop with the other date groups of each response on record
CycleDates(p) ==
  \/ FetchFail(p)
  \/ ApiError(p)
  \/ FetchNoDates(p)
  \/ FetchOkDates(p)
  \/ Lock(p)
  \/ LoopStep(p)
  \/ ReturnEmpty(p)
  \/ CallWrite(p)
  \/ WriteOk(p)
  \/ WriteFail(p)

NextDates ==
  \/ Startup
  \/ LoopReceive(Poller)
  \/ CycleDates(Poller)

SpecDates == Init /\ [][NextDates]_vars

\* two goroutines run poll cycles against one tracker, from the state of a
\* fresh process that is serving
InitConc ==
  /\ remoteWriteURL = "http://prometheus:9090/api/v1/write"
  /\ phase = "serving"
  /\ ticks = 0
  /\ cycles = 0
  /\ pc = [p \in AllProcs |-> "idle"]
  /\ remaining = [p \in AllProcs |-> 0]
  /\ m = [p \in AllProcs |-> NoMetric]
  /\ base = [p \in AllProcs |-> 0]
  /\ snapshot = [p \in AllProcs |-> NoSnapshot]
  /\ timeseries = [p \in AllProcs |-> <<>>]
  /\ err = [p \in AllProcs |-> "none"]
  /\ lastPushedTimestamp = [k \in {} |-> 0]
  /\ globalLatestTimestamp = 0
  /\ lastPushedMu = ""
  /\ statusPc = "idle"
  /\ statusReply = 0
  /\ healthPc = "idle"
  /\ globalHeld = {0}
  /\ written = {}
  /\ dropped = {}
  /\ seen = [p \in AllProcs |-> {}]
  /\ others = [p \in AllProcs |-> <<>>]
  /\ mainPc = "none"
  /\ args = <<"serve">>
  /\ metrics = <<>>
  /\ stdout = <<>>

NextConc ==
  \/ TickerFire
  \/ \E p \in AllProcs : LoopReceive(p)
  \/ \E p \in AllProcs : Cycle(p)

SpecConc == InitConc /\ [][NextConc]_vars

\* ------------------------------------------------- vocabulary of the claims
\* the forwarded wire types upstream sends, and the one that is cumulative
ForwardedTypes == {t \in WireTypes : Forwardable(t)}
NonCumulative(metric) ==
  Forwardable(metric.Type) /\ metric.Decodes /\ metric.Type # "steps"
Cumulative(metric) ==
  Forwardable(metric.Type) /\ metric.Decodes /\ metric.Type = "steps"
NameOf(type) == metricRegistry[type].PrometheusName
TypeOf(name) == CHOOSE t \in ForwardedTypes : NameOf(t) = name

\* the largest millisecond timestamp of `name` among the sample keys, 0 if none
MaxMs(name, keys) ==
  LET ms == {k[2] : k \in {x \in keys : x[1] = name}} \cup {0}
  IN CHOOSE x \in ms : \A y \in ms : y <= x

\* goroutine p's loop body has run on envelope m[p] and the next has not begun
BodyRan(p) == pc[p] = "loop" /\ m[p] # NoMetric

\* the batch as it was when that loop body began, and what the body appended
Prefix(p) == SubSeq(timeseries[p], 1, base[p])
Appended(p) == SubSeq(timeseries[p], base[p] + 1, Len(timeseries[p]))

\* every sample emitted before that loop body, by any cycle
EmittedBefore(p) == written \cup dropped \cup SampleKeys(Prefix(p))

\* the batch of goroutine p is complete and its send has not started
BatchBuilt(p) == pc[p] = "loop" /\ remaining[p] = 0

\* the loop body of goroutine p left the batch and the tracker as it found them
BodyDidNothing(p) ==
  /\ Appended(p) = <<>>
  /\ lastPushedTimestamp = snapshot[p].lastPushed
  /\ globalLatestTimestamp = snapshot[p].global

\* every sample emitted so far: sent, failed, or in a batch being built or sent
Emitted == written \cup dropped \cup UNION {SampleKeys(timeseries[p]) : p \in AllProcs}

\* the largest epoch-seconds among the sample keys, 0 if none
MaxSeconds(keys) ==
  LET secs == {k[2] \div 1000 : k \in keys} \cup {0}
  IN CHOOSE x \in secs : \A y \in secs : y <= x

\* the envelope with its payload made undecodable
Malformed(e) == [e EXCEPT !.Decodes = FALSE]

\* a decoded envelope of a simple metric whose value field is null
NullScalar(e) ==
  /\ e.Type \in SimpleTypes
  /\ e.Decodes
  /\ e.Value = << >>

\* ------------------------------------------------------------------ claims

\* C1: no two samples emitted by pushMetrics, within one batch or across
\* cycles, carry the same metric name and the same reading timestamp.
C1_NoSampleTwice ==
  \A p \in AllProcs :
    /\ \A i, j \in DOMAIN timeseries[p] :
         (i # j) =>
           <<timeseries[p][i].Name, timeseries[p][i].Timestamp>> #
           <<timeseries[p][j].Name, timeseries[p][j].Timestamp>>
    /\ SampleKeys(timeseries[p]) \cap (written \cup dropped) = {}

\* C2 as stated: when a cycle's batch is complete, the samples it holds for a
\* non-cumulative metric are exactly the readings decoded in the cycle whose
\* timestamp is greater than the largest one forwarded by the earlier cycles.
C2_CycleEmitsExactlyNew ==
  \A p \in AllProcs : BatchBuilt(p) =>
    \A t \in ForwardedTypes \ {"steps"} :
      {k[2] : k \in {x \in SampleKeys(timeseries[p]) : x[1] = NameOf(t)}}
      = {r[2] * 1000 :
           r \in {x \in seen[p] :
                    /\ x[1] = t
                    /\ x[2] * 1000 > MaxMs(NameOf(t), written \cup dropped)}}

\* C2 as amended: a loop body run on an envelope of a non-cumulative metric
\* appends, in order, exactly the readings of that envelope whose timestamp
\* is strictly greater than the largest timestamp emitted for the metric
\* before it, by earlier cycles or by earlier envelopes of the same cycle
\* (0 when none): a tie is not emitted, a greater one is.
C2_EnvelopeEmitsExactlyNew ==
  \A p \in AllProcs : (BodyRan(p) /\ NonCumulative(m[p])) =>
    LET before == MaxMs(NameOf(m[p].Type), EmittedBefore(p))
        fresh(r) == r.Timestamp * 1000 > before
        expected == SelectSeq(m[p].Values, fresh)
    IN /\ Len(Appended(p)) = Len(expected)
       /\ \A i \in DOMAIN expected :
            Appended(p)[i].Timestamp = expected[i].Timestamp * 1000

\* C2's case: a second cycle's envelope holds a reading tied with the largest
\* forwarded timestamp and a greater one, and only the greater one is emitted
C2_Witness ==
  \E p \in AllProcs :
    /\ BodyRan(p)
    /\ m[p].Type = "hr"
    /\ Len(m[p].Values) = 2
    /\ MaxMs(NameOf("hr"), written \cup dropped) = 1000
    /\ m[p].Values[1].Timestamp = 1
    /\ m[p].Values[2].Timestamp = 2
    /\ Len(timeseries[p]) = 1
    /\ timeseries[p][1].Timestamp = 2000

\* C3: after a failed Write every high-water mark and the global timestamp
\* still cover the samples of the failed batch (nothing was rolled back), and
\* no later batch holds a sample of a failed batch.
C3_FailureKeepsMarks ==
  /\ \A k \in dropped :
       /\ Lookup(lastPushedTimestamp, TypeOf(k[1])) * 1000 >= k[2]
       /\ globalLatestTimestamp * 1000 >= k[2]
  /\ \A p \in AllProcs : SampleKeys(timeseries[p]) \cap dropped = {}

\* C3's case: after a failed send, a later cycle decodes a reading of the
\* failed batch again and its complete batch does not hold it
C3_Witness ==
  \E p \in AllProcs :
    /\ BatchBuilt(p)
    /\ \E r \in seen[p] :
         /\ <<NameOf(r[1]), r[2] * 1000>> \in dropped
         /\ <<NameOf(r[1]), r[2] * 1000>> \notin SampleKeys(timeseries[p])

\* C4: a cycle that decodes a reading whose sample was in a failed batch, and
\* was never written, emits it again for the transport.
C4_FailedBatchRetried ==
  \A p \in AllProcs : BatchBuilt(p) =>
    \A r \in seen[p] :
      (<<NameOf(r[1]), r[2] * 1000>> \in dropped \ written) =>
        <<NameOf(r[1]), r[2] * 1000>> \in SampleKeys(timeseries[p])

\* C5: while the send of a batch has not been performed, no high-water mark
\* has reached the timestamp of a sample of that batch.
C5_MarksCommittedAfterSend ==
  \A p \in AllProcs : (pc[p] \in {"loop", "write"}) =>
    \A i \in DOMAIN timeseries[p] :
      Lookup(lastPushedTimestamp, TypeOf(timeseries[p][i].Name)) * 1000
        < timeseries[p][i].Timestamp

\* C6: a loop body run on a steps envelope appends exactly one sample
\* (ultrahuman_steps_total, the envelope's total, day start x 1000) when the
\* day start is strictly greater than the steps mark it found (the largest
\* day start emitted before), and the mark is then the day start; otherwise
\* it appends nothing and the mark stays. The envelope's readings are never
\* emitted.
C6_StepsOncePerDayStart ==
  \A p \in AllProcs : (BodyRan(p) /\ Cumulative(m[p])) =>
    LET before == MaxMs("ultrahuman_steps_total", EmittedBefore(p))
        v == m[p]
    IN IF v.DayStartTimestamp * 1000 > before
       THEN /\ Appended(p) = <<[Name |-> "ultrahuman_steps_total",
                                Value |-> v.Total,
                                Timestamp |-> v.DayStartTimestamp * 1000]>>
            /\ Lookup(lastPushedTimestamp, "steps") = v.DayStartTimestamp
       ELSE /\ Appended(p) = <<>>
            /\ Lookup(lastPushedTimestamp, "steps") * 1000 = before

\* C6's case: a steps envelope that carries a reading and whose day start is
\* past an earlier forwarded day start has emitted its total, once
C6_Witness ==
  \E p \in AllProcs :
    /\ BodyRan(p)
    /\ m[p].Type = "steps"
    /\ m[p].Decodes
    /\ m[p].Values # <<>>
    /\ m[p].DayStartTimestamp = 2
    /\ <<"ultrahuman_steps_total", 1000>> \in written \cup dropped
    /\ timeseries[p] = <<[Name |-> "ultrahuman_steps_total",
                          Value |-> m[p].Total, Timestamp |-> 2000]>>

C8_StatusReadsUnderLock ==
  (statusPc = "reading" /\ \E p \in AllProcs : pc[p] = "loop" /\ remaining[p] > 0)
    => lastPushedMu = "status"

\* C9: with two goroutines running poll cycles, a goroutine is in its pass
\* over the envelopes or in its send only while it holds the lock (so two
\* passes never interleave), and no batch holds a sample that another batch,
\* of either goroutine, has already emitted.
C9_PassesSerialized ==
  /\ \A p \in AllProcs : (pc[p] \in {"loop", "write"}) => lastPushedMu = p
  /\ \A p, q \in AllProcs :
       (p # q) => ~(pc[p] \in {"loop", "write"} /\ pc[q] \in {"loop", "write"})
  /\ \A p \in AllProcs :
       SampleKeys(timeseries[p]) \cap (written \cup dropped) = {}

\* C9's case: one goroutine waits for the lock while the other, holding it,
\* sends a batch
C9_Witness ==
  \E p, q \in AllProcs :
    /\ p # q
    /\ pc[p] = "write"
    /\ timeseries[p] # <<>>
    /\ pc[q] = "lock"

\* the states of the poll loop of section 4.6
PollState(p) ==
  CASE pc[p] = "idle" -> "Idle"
    [] pc[p] = "fetching" -> "Fetching"
    [] pc[p] \in {"lock", "loop"} -> "Decoding"
    [] pc[p] = "write" -> "Forwarding"

\* C10: the poll loop moves Idle -> Fetching -> Decoding -> Forwarding ->
\* Idle, going back to Idle early only from Fetching (failure, no data) or
\* from Decoding (nothing to send); a cycle that returns an error leaves the
\* loop in Idle and the process running, and the loop then takes the next
\* tick.
C10_FailureReturnsToIdle ==
  /\ [][PollState(Poller)' # PollState(Poller) =>
          <<PollState(Poller), PollState(Poller)'>> \in
            {<<"Idle", "Fetching">>, <<"Fetching", "Decoding">>,
             <<"Decoding", "Forwarding">>, <<"Forwarding", "Idle">>,
             <<"Fetching", "Idle">>, <<"Decoding", "Idle">>}]_vars
  /\ [][(pc[Poller] # "idle" /\ pc'[Poller] = "idle"
           /\ err'[Poller] \in {"fetch_error", "api_error", "push_error"})
          => (phase' = phase /\ phase' \in {"initial", "serving"})]_vars
  /\ []((phase = "serving" /\ pc[Poller] = "idle" /\ ticks = 1
           /\ cycles < MaxCycles) => ENABLED LoopReceive(Poller))
  /\ []((phase = "initial" /\ pc[Poller] = "idle") => ENABLED Serve)

\* C10's case: after a cycle whose send failed, the next tick has started a
\* new cycle
C10_Witness ==
  /\ phase = "serving"
  /\ err[Poller] = "push_error"
  /\ pc[Poller] = "fetching"

\* C11: a /status or /health request that the server has accepted can
\* complete in every state, whatever the poll cycle is doing: also while the
\* cycle is in the upstream fetch and while it is in the send with the
\* tracker lock held. A request can be accepted in every state of the
\* serving process.
C11_ServingNeverBlocks ==
  /\ (statusPc = "reading") => ENABLED StatusReply
  /\ (healthPc = "writing") => ENABLED HealthReply
  /\ (phase = "serving" /\ statusPc = "idle") => ENABLED StatusRequest
  /\ (phase = "serving" /\ healthPc = "idle") => ENABLED HealthRequest

\* C11's case: the poll cycle is in its send and holds the lock, nothing was
\* emitted before this batch, and a /status request has completed with the
\* timestamp this batch set
C11_Witness ==
  /\ pc[Poller] = "write"
  /\ lastPushedMu = Poller
  /\ written \cup dropped = {}
  /\ statusPc = "idle"
  /\ statusReply > 0

\* C12: a loop body run on an envelope whose type is absent from the registry
\* (sleep and motion among them), or whose registry entry is not a time
\* series or has no output name, appends no sample and leaves every
\* high-water mark and the global timestamp as they were, whatever readings
\* the envelope carries; the pass goes on (it is not an error). Every sample
\* of a batch carries the output name of a time-series registry entry.
C12_OnlyTimeSeriesForwarded ==
  /\ \A p \in AllProcs :
       (BodyRan(p) /\ (\/ m[p].Type \notin DOMAIN metricRegistry
                       \/ metricRegistry[m[p].Type].MetricType # "timeseries"
                       \/ metricRegistry[m[p].Type].PrometheusName = ""))
         => BodyDidNothing(p)
  /\ \A p \in AllProcs : \A i \in DOMAIN timeseries[p] :
       \E t \in DOMAIN metricRegistry :
         /\ metricRegistry[t].MetricType = "timeseries"
         /\ metricRegistry[t].PrometheusName = timeseries[p][i].Name
         /\ timeseries[p][i].Name # ""

\* C12's case: after a heart-rate envelope was emitted in the same pass, a
\* simple-metric envelope that carries a reading newer than everything
\* emitted has been ranged over
C12_Witness ==
  \E p \in AllProcs :
    /\ BodyRan(p)
    /\ m[p].Type = "sleep_score"
    /\ m[p].Values # <<>>
    /\ Len(timeseries[p]) = 1
    /\ timeseries[p][1].Timestamp < m[p].Values[1].Timestamp * 1000

\* C13: a goroutine is in the transport send only with a batch of at least
\* one sample, and a pass that ends with a non-empty batch can only go on to
\* the send; a pass that ends with an empty batch cannot send: its one step
\* returns nil to the caller and leaves the sent and the failed samples as
\* they were.
C13_SendIffNonEmpty ==
  \A p \in AllProcs :
    /\ (pc[p] = "write") => Len(timeseries[p]) > 0
    /\ (BatchBuilt(p) /\ timeseries[p] # <<>>) =>
         /\ ENABLED CallWrite(p)
         /\ ~ENABLED (Cycle(p) /\ pc'[p] # "write")
    /\ (BatchBuilt(p) /\ timeseries[p] = <<>>) =>
         /\ ENABLED ReturnEmpty(p)
         /\ ~ENABLED CallWrite(p)
         /\ ~ENABLED (Cycle(p) /\ (\/ pc'[p] # "idle"
                                   \/ err'[p] # "nil"
                                   \/ written' # written
                                   \/ dropped' # dropped))

\* C13's case: a later pass has ranged over envelopes whose readings were all
\* pushed before, and its batch is empty
C13_Witness ==
  \E p \in AllProcs :
    /\ BatchBuilt(p)
    /\ timeseries[p] = <<>>
    /\ seen[p] # {}
    /\ written # {}

\* C14: a loop body run on a forwardable envelope whose payload fails to
\* decode appends no sample and leaves every mark, its own type's among them,
\* and the global timestamp as they were, so the envelopes after it meet the
\* state they would meet without it; the pass goes on and cannot return an
\* error from there.
C14_DecodeFailureScoped ==
  \A p \in AllProcs :
    (BodyRan(p) /\ Forwardable(m[p].Type) /\ ~m[p].Decodes) =>
      /\ BodyDidNothing(p)
      /\ Lookup(lastPushedTimestamp, m[p].Type)
           = Lookup(snapshot[p].lastPushed, m[p].Type)
      /\ ENABLED Cycle(p)
      /\ ~ENABLED (Cycle(p) /\ pc'[p] = "idle" /\ err'[p] # "nil")

\* C14's case: after a heart-rate envelope was emitted in the same pass, a
\* heart-rate envelope that fails to decode, and whose partly decoded reading
\* is newer than the mark, has been ranged over
C14_Witness ==
  \E p \in AllProcs :
    /\ BodyRan(p)
    /\ m[p].Type = "hr"
    /\ ~m[p].Decodes
    /\ m[p].Values # <<>>
    /\ Len(timeseries[p]) = 1
    /\ m[p].Values[1].Timestamp > Lookup(lastPushedTimestamp, "hr")

\* C15: a cycle that is fetching can end with a fetch error and with an API
\* error, and every step that ends it so returns to the caller with no
\* envelope ranged over, no sample appended, nothing sent, the lock not
\* taken, and every mark and the global timestamp as they were when the cycle
\* began.
C15_FetchFailureChangesNothing ==
  \A p \in AllProcs : (pc[p] = "fetching") =>
    /\ ENABLED (Cycle(p) /\ pc'[p] = "idle" /\ err'[p] = "fetch_error")
    /\ ENABLED (Cycle(p) /\ pc'[p] = "idle" /\ err'[p] = "api_error")
    /\ ~ENABLED (/\ Cycle(p)
                 /\ pc'[p] = "idle"
                 /\ err'[p] \in {"fetch_error", "api_error"}
                 /\ ~(/\ phase' = phase
                      /\ UNCHANGED <<lastPushedTimestamp, globalLatestTimestamp,
                                     lastPushedMu, timeseries, remaining, m,
                                     seen, written, dropped>>))

\* C15's case: the second cycle ended with an API error and the marks the
\* first cycle set are in place
C15_Witness ==
  /\ cycles = 2
  /\ pc[Poller] = "idle"
  /\ err[Poller] = "api_error"
  /\ Lookup(lastPushedTimestamp, "hr") = 2
  /\ Lookup(lastPushedTimestamp, "steps") = 1
  /\ globalLatestTimestamp = 2

C17_NullIsNoDataNotFailure ==
  (mainPc = "returned" /\ Len(metrics) = 1 /\ NullScalar(metrics[1])) =>
    LET e == metrics[1]
    IN /\ ~Forwardable(e.Type)
       /\ (args = <<e.Type>>) =>
            /\ stdout = <<"null">>
            /\ stdout # <<getMetricValue(<<[e EXCEPT !.Value = <<0>>]>>, e.Type)>>
            /\ stdout # <<getMetricValue(<<Malformed(e)>>, e.Type)>>
       /\ (args = << >>) =>
            /\ stdout = displayMetrics(<< >>)
            /\ stdout # displayMetrics(<<[e EXCEPT !.Value = <<0>>]>>)
            /\ stdout # displayMetrics(<<Malformed(e)>>)

\* C18: over all cycles of a process at most one steps sample is emitted for
\* a day start: no batch holds two steps samples of one timestamp, nor one
\* that an earlier batch held, sent or failed. A steps envelope whose day
\* start is that of an emitted steps sample, or an earlier one, appends
\* nothing and leaves the marks and the global timestamp as they were,
\* whatever its total; the sample a steps envelope does append carries that
\* envelope's total.
C18_SameDayStepsDropped ==
  \A p \in AllProcs :
    /\ \A i, j \in DOMAIN timeseries[p] :
         (/\ i # j
          /\ timeseries[p][i].Name = "ultrahuman_steps_total"
          /\ timeseries[p][j].Name = "ultrahuman_steps_total")
           => timeseries[p][i].Timestamp # timeseries[p][j].Timestamp
    /\ \A i \in DOMAIN timeseries[p] :
         (timeseries[p][i].Name = "ultrahuman_steps_total") =>
           <<"ultrahuman_steps_total", timeseries[p][i].Timestamp>>
             \notin written \cup dropped
    /\ (BodyRan(p) /\ Cumulative(m[p])) =>
         IF \E k \in EmittedBefore(p) :
               /\ k[1] = "ultrahuman_steps_total"
               /\ k[2] >= m[p].DayStartTimestamp * 1000
         THEN BodyDidNothing(p)
         ELSE \A i \in DOMAIN Appended(p) : Appended(p)[i].Value = m[p].Total

\* C18's case: in one pass a steps envelope with total 500 was emitted for
\* day start 1, and a second steps envelope of day start 1 with total 620
\* has been ranged over and appended nothing
C18_Witness ==
  \E p \in AllProcs :
    /\ BodyRan(p)
    /\ m[p].Type = "steps"
    /\ m[p].Decodes
    /\ m[p].DayStartTimestamp = 1
    /\ m[p].Total = 620
    /\ base[p] = 1
    /\ timeseries[p] = <<[Name |-> "ultrahuman_steps_total", Value |-> 500,
                          Timestamp |-> 1000]>>

\* a poll cycle of goroutine p is in Fetching, Decoding or Forwarding
Running(p) == pc[p] # "idle"

C20_UnsortedReadingsKept ==
  \A p \in AllProcs : (BodyRan(p) /\ NonCumulative(m[p])) =>
    LET lastTs == Lookup(snapshot[p].lastPushed, m[p].Type)
        above(r) == r.Timestamp > lastTs
        kept == SelectSeq(m[p].Values, above)
        stamps == {kept[i].Timestamp : i \in DOMAIN kept} \cup {lastTs}
    IN /\ Len(Appended(p)) = Len(kept)
       /\ \A i \in DOMAIN kept :
            /\ Appended(p)[i].Timestamp = kept[i].Timestamp * 1000
            /\ Appended(p)[i].Value = kept[i].Value
       /\ \A x \in stamps : x <= Lookup(lastPushedTimestamp, m[p].Type)
       /\ Lookup(lastPushedTimestamp, m[p].Type) \in stamps

\* C20's case: with the mark at 0 an envelope holds the reading of timestamp
\* 2 before the reading of timestamp 1, and both were appended in that order
C20_Witness ==
  \E p \in AllProcs :
    /\ BodyRan(p)
    /\ m[p].Type = "hr"
    /\ m[p].Decodes
    /\ Lookup(snapshot[p].lastPushed, "hr") = 0
    /\ Len(m[p].Values) = 2
    /\ m[p].Values[1].Timestamp = 2
    /\ m[p].Values[2].Timestamp = 1
    /\ Len(Appended(p)) = 2
    /\ Appended(p)[1].Timestamp = 2000
    /\ Appended(p)[2].Timestamp = 1000

\* C21: in every state the mark of each forwarded type is the largest
\* epoch-seconds emitted for the type so far (for steps the largest day
\* start), 0 when none, so after a cycle it is the largest of its value
\* before the cycle and the timestamps the cycle emitted for the type; no
\* step lowers a mark; and a loop body changes no mark but that of its
\* envelope's type.
C21_MarksAreMaxima ==
  /\ \A t \in ForwardedTypes :
       Lookup(lastPushedTimestamp, t) * 1000 = MaxMs(NameOf(t), Emitted)
  /\ DOMAIN lastPushedTimestamp \subseteq ForwardedTypes
  /\ ~ENABLED (Next /\ \E t \in ForwardedTypes :
                  Lookup(lastPushedTimestamp', t) < Lookup(lastPushedTimestamp, t))
  /\ \A p \in AllProcs : BodyRan(p) =>
       /\ \A t \in ForwardedTypes \ {m[p].Type} :
            Lookup(lastPushedTimestamp, t) = Lookup(snapshot[p].lastPushed, t)
       /\ \A t \in ForwardedTypes \cap {m[p].Type} :
            LET old == Lookup(snapshot[p].lastPushed, t) * 1000
                new == MaxMs(NameOf(t), SampleKeys(Appended(p)))
            IN Lookup(lastPushedTimestamp, t) * 1000
                 = IF new > old THEN new ELSE old

\* C21's case: with the steps mark at 1, a heart-rate envelope whose last
\* reading is older than its first has been emitted whole, the heart-rate
\* mark is the larger timestamp and the steps mark is still 1
C21_Witness ==
  \E p \in AllProcs :
    /\ BodyRan(p)
    /\ m[p].Type = "hr"
    /\ m[p].Decodes
    /\ Len(m[p].Values) = 2
    /\ m[p].Values[1].Timestamp = 2
    /\ m[p].Values[2].Timestamp = 1
    /\ Len(Appended(p)) = 2
    /\ Lookup(lastPushedTimestamp, "hr") = 2
    /\ Lookup(snapshot[p].lastPushed, "steps") = 1
    /\ Lookup(lastPushedTimestamp, "steps") = 1

\* a timestamp of type t at or below the type's mark that was never emitted
Late(t, ts) ==
  /\ ts <= Lookup(lastPushedTimestamp, t)
  /\ <<NameOf(t), ts * 1000>> \notin Emitted

\* C22: a loop body run on an envelope of a non-cumulative metric appends no
\* sample for a reading at or below the type's mark as the body found it,
\* and a timestamp that is at or below its type's mark and was never emitted
\* is not emitted by any later step of the process.
C22_LateReadingsDropped ==
  /\ \A p \in AllProcs : (BodyRan(p) /\ NonCumulative(m[p])) =>
       \A i \in DOMAIN Appended(p) :
         Appended(p)[i].Timestamp
           > Lookup(snapshot[p].lastPushed, m[p].Type) * 1000
  /\ ~ENABLED (Next /\ \E t \in ForwardedTypes : \E ts \in Timestamps :
                  /\ Late(t, ts)
                  /\ <<NameOf(t), ts * 1000>> \in Emitted')

\* C22's case: after timestamp 2 was emitted in an earlier cycle, a
\* heart-rate envelope reports timestamp 1, never emitted, and the body has
\* appended nothing
C22_Witness ==
  \E p \in AllProcs :
    /\ BodyRan(p)
    /\ m[p].Type = "hr"
    /\ m[p].Decodes
    /\ Len(m[p].Values) = 1
    /\ m[p].Values[1].Timestamp = 1
    /\ Late("hr", 1)
    /\ <<"ultrahuman_heart_rate_bpm", 2000>> \in written \cup dropped
    /\ Appended(p) = <<>>

\* C23: every sample ever emitted has a strictly positive timestamp; a loop
\* body run on a steps envelope whose day start is 0 (also when the payload
\* has none) or negative appends nothing and changes no tracker state; every
\* mark the map holds is strictly positive, and the global timestamp is 0
\* until a sample is emitted and strictly positive from then on.
C23_OnlyPositiveTimestamps ==
  /\ \A k \in Emitted : k[2] > 0
  /\ \A p \in AllProcs : (BodyRan(p) /\ NonCumulative(m[p])) =>
       Len(Appended(p)) <= Len(SelectSeq(m[p].Values,
                                         LAMBDA r : r.Timestamp > 0))
  /\ \A p \in AllProcs :
       (BodyRan(p) /\ Cumulative(m[p]) /\ m[p].DayStartTimestamp <= 0)
         => BodyDidNothing(p)
  /\ \A k \in DOMAIN lastPushedTimestamp : lastPushedTimestamp[k] > 0
  /\ IF Emitted = {} THEN globalLatestTimestamp = 0
      ELSE globalLatestTimestamp > 0

\* C23's case: in the first cycle a heart-rate envelope holds a reading of
\* timestamp -1 and one of timestamp 0; nothing was appended and no mark is
\* recorded for the type
C23_Witness ==
  \E p \in AllProcs :
    /\ BodyRan(p)
    /\ m[p].Type = "hr"
    /\ m[p].Decodes
    /\ Len(m[p].Values) = 2
    /\ m[p].Values[1].Timestamp = -1
    /\ m[p].Values[2].Timestamp = 0
    /\ Appended(p) = <<>>
    /\ "hr" \notin DOMAIN lastPushedTimestamp
    /\ globalLatestTimestamp = 0

\* the goroutine is inside pushMetrics: waiting for the lock, building the
\* batch, or sending it
InPush(p) == pc[p] \in {"lock", "loop", "write"}

\* <<type, seconds>> of the readings under the dates the range loop did not
\* reach
IgnoredKeys(p) ==
  UNION {UNION {Decoded(others[p][i][j]) : j \in DOMAIN others[p][i]} :
           i \in DOMAIN others[p]}

\* the sample a reading <<type, seconds>> would be emitted as
SampleOf(k) == <<NameOf(k[1]), k[2] * 1000>>

\* the steps a goroutine takes through one poll cycle: idle, fetch, then
\* either idle again or one pass of pushMetrics (lock, batch loop, and a send
\* unless the batch is empty) and idle again
CycleOrder(from, to) ==
  \/ to = from
  \/ from = "idle" /\ to = "fetching"
  \/ from = "fetching" /\ to \in {"idle", "lock"}
  \/ from = "lock" /\ to = "loop"
  \/ from = "loop" /\ to \in {"write", "idle"}
  \/ from = "write" /\ to = "idle"

\* C24: whatever the number of date groups in the response, a poll cycle
\* runs pushMetrics once: the poller enters pushMetrics only from its fetch
\* and starts a fetch only when idle, a send is only started from the batch
\* loop, and when a send or an empty batch ends the pass the poller is idle
\* again (the other date groups are not visited). A reading found only
\* under a date that was not reached is not in the cycle's batch, and no
\* step of the pass emits it.
C24_OneDateGroupPerCycle ==
  /\ pc[Poller] \in {"loop", "write"} =>
       \A k \in IgnoredKeys(Poller) \ seen[Poller] :
         SampleOf(k) \notin SampleKeys(timeseries[Poller])
  /\ ~ENABLED (/\ NextDates
               /\ \/ ~CycleOrder(pc[Poller], pc'[Poller])
                  \/ /\ pc[Poller] = "write"
                     /\ \E k \in IgnoredKeys(Poller) \ seen[Poller] :
                          /\ SampleOf(k) \notin written \cup dropped
                          /\ SampleOf(k) \in written' \cup dropped')

\* C24's case: the response held two date groups; the batch built from the
\* one that was reached is being sent with a heart-rate sample of second 1,
\* the other group's heart-rate reading of second MaxTs is above the mark
\* and was never emitted
C24_Witness ==
  /\ pc[Poller] = "write"
  /\ Len(others[Poller]) = 1
  /\ <<"hr", MaxTs>> \in IgnoredKeys(Poller) \ seen[Poller]
  /\ SampleOf(<<"hr", 1>>) \in SampleKeys(timeseries[Poller])
  /\ Lookup(lastPushedTimestamp, "hr") = 1
  /\ SampleOf(<<"hr", MaxTs>>) \notin Emitted

====
